---- MODULE Spec2Model ----
(***************************************************************************)
(* Model of deployment/cloud/setup.py: the Besu cloud network setup        *)
(* script.  One run of main() is a sequence of steps: read the two         *)
(* interactive choices, generate the validator keys, write genesis.json    *)
(* and the per-node key files, write the docker-compose files, write       *)
(* validators.json and print the deployment guide.                         *)
(*                                                                         *)
(* The module-level configuration (NUM_VALIDATORS, NODE_IPS) is edited by  *)
(* the operator before the script is run ("update these for your           *)
(* environment"), so it is chosen in Init and constant during a run.       *)
(*                                                                         *)
(* Text is modelled as sequences of character codes:                       *)
(*    0..15   the hex digits '0'..'9', 'a'..'f'                            *)
(*    26..31  the upper-case hex digits 'A'..'F' (digit value + 16)        *)
(*    99      the letter 'x' of the "0x" prefix                            *)
(* Binary data is modelled as sequences of bytes 0..255.                   *)
(***************************************************************************)
EXTENDS Integers, Sequences, FiniteSets, TLC

\* ------------------------------------------------------------------------
\* Bounds of the model
\* ------------------------------------------------------------------------

\* Largest NUM_VALIDATORS the operator configures.
MaxValidators == 4

\* Number of distinct valid private keys the random source can yield
\* (1..KeySpace); 0 is the zero key and KeySpace + 1 stands for every
\* 32-byte value that is not below the curve order.
KeySpace == 2

\* ------------------------------------------------------------------------
\* Configuration constants of the script
\* ------------------------------------------------------------------------

CHAIN_ID == 1337

INITIAL_BALANCE == "0x1000000000000000000000"

\* The default endpoint table: the last octet of 192.168.1.11 .. .15,
\* continued in the same pattern for longer tables.
DefaultNodeIps(len) == [j \in 1..len |-> 10 + j]

\* ------------------------------------------------------------------------
\* Text and byte helpers
\* ------------------------------------------------------------------------

\* '0x'
Prefix0x == <<0, 99>>

\* s[2:]
Strip2(s) == SubSeq(s, 3, Len(s))

\* str.lower() on a string of hex digits and 'x'
Lower(s) == [j \in 1..Len(s) |-> IF s[j] >= 26 /\ s[j] <= 31 THEN s[j] - 16 ELSE s[j]]

\* bytes.hex(): two lower-case hex digits per byte
BytesHex(bs) ==
    [j \in 1..(2 * Len(bs)) |->
        IF j % 2 = 1 THEN bs[(j + 1) \div 2] \div 16 ELSE bs[j \div 2] % 16]

\* value of one hex digit, either case
NibbleVal(c) == IF c >= 26 THEN c - 16 ELSE c

\* bytes.fromhex(): the inverse of BytesHex, defined on strings of even length
HexToBytes(h) ==
    [j \in 1..(Len(h) \div 2) |-> 16 * NibbleVal(h[2 * j - 1]) + NibbleVal(h[2 * j])]

Zeros(n) == [j \in 1..n |-> 0]

\* ------------------------------------------------------------------------
\* eth_keys / eth_utils as used by generate_validator_keys
\* ------------------------------------------------------------------------

\* The draws of os.urandom(32), as integers.
Draws == 0..(KeySpace + 1)

\* The order of the curve: a draw at or above it is not a private key.
CurveOrder == KeySpace + 1

\* private_key.to_bytes(): 32 bytes, big endian
PrivateKeyBytes(k) == [j \in 1..32 |-> IF j = 32 THEN k % 256 ELSE 0]

\* private_key.public_key.to_bytes(): 64 bytes, a fixed injective function of
\* the private key standing for the curve multiplication; the zero scalar
\* maps to the all-zero point encoding.
PublicKeyBytes(k) ==
    [j \in 1..64 |-> IF k = 0 THEN 0 ELSE (k * 31 + j * 7) % 256]

\* public_key.to_address(): 20 bytes, a fixed function of the public key
\* standing for the last 20 bytes of its hash.
AddressBytes(pub) == [j \in 1..20 |-> (pub[44 + j] + 3 * pub[j] + j) % 256]

\* to_checksum_address(): "0x" and 40 hex digits, the letters upper-cased
\* where the checksum hash says so (a fixed function of digit and position).
ToChecksumAddress(ab) ==
    LET hex == BytesHex(ab)
    IN  Prefix0x \o [j \in 1..Len(hex) |->
            IF hex[j] >= 10 /\ (hex[j] + j) % 16 >= 8 THEN hex[j] + 16 ELSE hex[j]]

\* The identity record appended by generate_validator_keys for draw k.
ValidatorRecord(idx, k) ==
    [index       |-> idx + 1,
     address     |-> ToChecksumAddress(AddressBytes(PublicKeyBytes(k))),
     private_key |-> Prefix0x \o BytesHex(PrivateKeyBytes(k)),
     public_key  |-> Prefix0x \o BytesHex(PublicKeyBytes(k))]

\* ------------------------------------------------------------------------
\* create_extra_data
\* ------------------------------------------------------------------------

\* "0xf87ea0" 64 zeros "f854"
ExtraDataHead == Prefix0x \o <<15, 8, 7, 14, 10, 0>> \o Zeros(64) \o <<15, 8, 5, 4>>

\* "808400000000c0"
ExtraDataTail == <<8, 0, 8, 4, 0, 0, 0, 0, 0, 0, 0, 0, 12, 0>>

\* "94" + addr[2:].lower()
ExtraDataEntry(addr) == <<9, 4>> \o Lower(Strip2(addr))

RECURSIVE ExtraDataEntries(_)
ExtraDataEntries(addrs) ==
    IF addrs = <<>> THEN <<>>
    ELSE ExtraDataEntry(Head(addrs)) \o ExtraDataEntries(Tail(addrs))

create_extra_data(validator_addresses) ==
    ExtraDataHead \o ExtraDataEntries(validator_addresses) \o ExtraDataTail

\* ------------------------------------------------------------------------
\* The canonical decoder of the length-prefixed nested-list encoding (RLP),
\* the reader of the extraData field on the consensus side.
\* ------------------------------------------------------------------------

RECURSIVE BigEndian(_, _, _)
BigEndian(b, p, n) ==
    IF n = 0 THEN 0 ELSE 256 * BigEndian(b, p, n - 1) + b[p + n - 1]

RlpFail == [ok |-> FALSE, isList |-> FALSE, start |-> 0, len |-> 0]

\* The item whose prefix is at position p and which must end at or before
\* position last: its kind, the position of its payload, and its length.
RlpHeader(b, p, last) ==
    IF p > last THEN RlpFail
    ELSE
      LET x == b[p]
          long(isList, ll) ==
              IF p + ll > last \/ b[p + 1] = 0 THEN RlpFail
              ELSE LET n == BigEndian(b, p + 1, ll)
                   IN  IF n <= 55 \/ p + ll + n > last THEN RlpFail
                       ELSE [ok |-> TRUE, isList |-> isList,
                             start |-> p + ll + 1, len |-> n]
          short(isList, n) ==
              IF p + n > last THEN RlpFail
              ELSE IF ~isList /\ n = 1 /\ b[p + 1] < 128 THEN RlpFail
              ELSE [ok |-> TRUE, isList |-> isList, start |-> p + 1, len |-> n]
      IN  IF x < 128 THEN [ok |-> TRUE, isList |-> FALSE, start |-> p, len |-> 1]
          ELSE IF x <= 183 THEN short(FALSE, x - 128)
          ELSE IF x <= 191 THEN long(FALSE, x - 183)
          ELSE IF x <= 247 THEN short(TRUE, x - 192)
          ELSE long(TRUE, x - 247)

\* The items that fill positions p..last exactly.
RECURSIVE RlpItems(_, _, _)
RlpItems(b, p, last) ==
    IF p = last + 1 THEN [ok |-> TRUE, items |-> <<>>]
    ELSE
      LET h == RlpHeader(b, p, last)
      IN  IF ~h.ok THEN [ok |-> FALSE, items |-> <<>>]
          ELSE LET rest == RlpItems(b, h.start + h.len, last)
               IN  [ok |-> rest.ok, items |-> <<h>> \o rest.items]

DecodeFail == [ok |-> FALSE, addrs |-> <<>>]

\* Decode an extraData string: one list that spans the whole blob, whose
\* second element is the list of validator addresses.
DecodeExtraData(extra) ==
    LET hex == Strip2(extra)
        b   == HexToBytes(hex)
        top == RlpHeader(b, 1, Len(b))
    IN  IF Len(hex) % 2 # 0 \/ ~top.ok \/ ~top.isList
           \/ top.start + top.len - 1 # Len(b)
        THEN DecodeFail
        ELSE
          LET fields == RlpItems(b, top.start, Len(b))
          IN  IF ~fields.ok \/ Len(fields.items) < 2 \/ ~fields.items[2].isList
              THEN DecodeFail
              ELSE
                LET vl == fields.items[2]
                    vs == RlpItems(b, vl.start, vl.start + vl.len - 1)
                IN  IF ~vs.ok \/ \E j \in 1..Len(vs.items) : vs.items[j].isList
                    THEN DecodeFail
                    ELSE [ok |-> TRUE,
                          addrs |-> [j \in 1..Len(vs.items) |->
                                       SubSeq(b, vs.items[j].start,
                                              vs.items[j].start + vs.items[j].len - 1)]]

\* ------------------------------------------------------------------------
\* State of one run
\* ------------------------------------------------------------------------

VARIABLES
    NUM_VALIDATORS,   \* configuration: number of validators
    NODE_IPS,         \* configuration: the endpoint table
    backend,          \* which eth_keys backend is installed
    pc,               \* position of main()
    error,            \* the exception that ended the run, or "none"
    consensus,        \* main's local: "ibft2" or "qbft"
    block_period,     \* main's local: the selected block period
    validators,       \* the list built by generate_validator_keys
    i,                \* position of the running for loop (1-based)
    bootnode_enode,   \* create_docker_compose_files' local, <<>> until set
    genesis_json,     \* config/genesis.json: <<>> or <<contents>>
    key_files,        \* config/keys/node<k>/: k -> the files written there
    compose_files,    \* docker-compose/node<k>.yml: k -> contents
    validators_json   \* validators.json: <<>> or <<contents>>

vars == <<NUM_VALIDATORS, NODE_IPS, backend, pc, error, consensus, block_period,
          validators, i, bootnode_enode, genesis_json, key_files, compose_files,
          validators_json>>

config == <<NUM_VALIDATORS, NODE_IPS, backend>>
files  == <<genesis_json, key_files, compose_files, validators_json>>

\* NUM_TOTAL_NODES = NUM_VALIDATORS + 1
NumTotalNodesNoRpc(n) == n
NumTotalNodes(n) == n + 1

NUM_TOTAL_NODES == NumTotalNodes(NUM_VALIDATORS)

\* ------------------------------------------------------------------------
\* create_genesis_config
\* ------------------------------------------------------------------------

create_genesis_config(consensus_arg, block_period_arg) ==
    [chainId            |-> CHAIN_ID,
     consensus_key      |-> consensus_arg,
     blockperiodseconds |-> block_period_arg,
     epochlength        |-> 30000,
     requesttimeoutseconds |-> 4,
     alloc              |-> <<>>,
     extraData          |-> Prefix0x]

\* The default of create_genesis_config's block_period parameter.
DefaultBlockPeriod == 2

\* genesis["alloc"][key] = value on an insertion-ordered dict
RECURSIVE AllocSet(_, _, _)
AllocSet(alloc, key, value) ==
    IF alloc = <<>> THEN <<[address |-> key, balance |-> value]>>
    ELSE IF Head(alloc).address = key
         THEN <<[address |-> key, balance |-> value]>> \o Tail(alloc)
         ELSE <<Head(alloc)>> \o AllocSet(Tail(alloc), key, value)

\* the loop "for v in validators: genesis['alloc'][v['address'][2:].lower()] = ..."
RECURSIVE AllocAll(_, _)
AllocAll(alloc, vs) ==
    IF vs = <<>> THEN alloc
    ELSE AllocAll(AllocSet(alloc, Lower(Strip2(Head(vs).address)), INITIAL_BALANCE),
                  Tail(vs))

\* The genesis that save_node_files builds and dumps.
BuildGenesis(vs, consensus_arg) ==
    LET g == create_genesis_config(consensus_arg, DefaultBlockPeriod)
    IN  [g EXCEPT !.alloc = AllocAll(g.alloc, vs),
                  !.extraData = create_extra_data([j \in 1..Len(vs) |-> vs[j].address])]

\* ------------------------------------------------------------------------
\* enode URLs and deployment descriptors
\* ------------------------------------------------------------------------

\* f"enode://{pubkey}@{host}:30303"
Enode(pubkey, host) ==
    [scheme |-> "enode://", pubkey |-> pubkey, host |-> host, port |-> 30303]

\* the enode file of validator v in save_node_files
NodeEnode(v, ips) == Enode(Strip2(v.public_key), ips[v.index])

\* bootnode_enode in create_docker_compose_files
BootnodeEnodeKeepsPrefix(vs, ips) == Enode(vs[1].public_key, ips[1])
BootnodeEnode(vs, ips) == Enode(Strip2(vs[1].public_key), ips[1])

\* bootnode_line: empty for node 1, the --bootnodes flag otherwise
BootnodeLine(idx, bootnode) == IF idx = 1 THEN <<>> ELSE <<bootnode>>

\* the volume "../config/keys/node{i}/key:/config/key" of validator i
KeyVolumeOfBootnode(idx) == <<1>>
KeyVolume(idx) == <<idx>>

ConsensusApi(c) == IF c = "ibft2" THEN "IBFT" ELSE "QBFT"

\* content of docker-compose/node{i}.yml for validator v
ValidatorDescriptor(v, ips, bootnode, c) ==
    [service          |-> v.index,
     role             |-> "validator",
     deploy_to        |-> ips[v.index],
     key_volume       |-> KeyVolume(v.index),
     private_key_file |-> TRUE,
     rpc_api          |-> ConsensusApi(c),
     p2p_host         |-> ips[v.index],
     bootnodes        |-> BootnodeLine(v.index, bootnode),
     miner_enabled    |-> TRUE]

\* rpc_content
RpcDescriptor(total, ips, bootnode, c) ==
    [service          |-> total,
     role             |-> "rpc",
     deploy_to        |-> ips[total],
     key_volume       |-> <<>>,
     private_key_file |-> FALSE,
     rpc_api          |-> ConsensusApi(c),
     p2p_host         |-> ips[total],
     bootnodes        |-> <<bootnode>>,
     miner_enabled    |-> FALSE]

\* ------------------------------------------------------------------------
\* Init
\* ------------------------------------------------------------------------

EndpointTableLengths == (MaxValidators - 1)..(MaxValidators + 1)

Init ==
    /\ NUM_VALIDATORS \in 0..MaxValidators
    /\ NODE_IPS \in {DefaultNodeIps(l) : l \in EndpointTableLengths}
    /\ backend \in {"native", "coincurve"}
    /\ pc = "start"
    /\ error = "none"
    /\ consensus = ""
    /\ block_period = 0
    /\ validators = <<>>
    /\ i = 0
    /\ bootnode_enode = <<>>
    /\ genesis_json = <<>>
    /\ key_files = <<>>
    /\ compose_files = <<>>
    /\ validators_json = <<>>

\* ------------------------------------------------------------------------
\* main: the two prompts
\* ------------------------------------------------------------------------

ConsensusInputs == {"", "1", "2"}
BlockInputs == {"", "1", "2", "3", "4", "x"}

\* input(...).strip() or default
OrDefault(s, d) == IF s = "" THEN d ELSE s

IsInt(s) == s \in {"1", "2", "3", "4"}

\* {1: 1, 2: 2, 3: 5}.get(int(choice), 2)
BlockPeriodOf(choice) ==
    CASE choice = "1" -> 1
      [] choice = "2" -> 2
      [] choice = "3" -> 5
      [] OTHER -> 2

ConsensusOf(choice) == IF choice = "1" THEN "ibft2" ELSE "qbft"

Fail(e) == pc' = "failed" /\ error' = e

Start ==
    /\ pc = "start"
    /\ \E c1 \in ConsensusInputs, c2 \in BlockInputs :
         /\ IsInt(OrDefault(c2, "2"))
         /\ consensus' = ConsensusOf(OrDefault(c1, "1"))
         /\ block_period' = BlockPeriodOf(OrDefault(c2, "2"))
    /\ pc' = IF NUM_VALIDATORS = 0 THEN "save_genesis" ELSE "keygen"
    /\ UNCHANGED <<config, error, validators, i, bootnode_enode, files>>

\* int(choice) raises ValueError on a non-numeric answer
StartValueError ==
    /\ pc = "start"
    /\ \E c1 \in ConsensusInputs, c2 \in BlockInputs :
         /\ ~IsInt(OrDefault(c2, "2"))
         /\ consensus' = ConsensusOf(OrDefault(c1, "1"))
    /\ Fail("ValueError")
    /\ UNCHANGED <<config, block_period, validators, i, bootnode_enode, files>>

\* ------------------------------------------------------------------------
\* generate_validator_keys: one iteration of the loop
\* ------------------------------------------------------------------------

\* keys.PrivateKey(draw) succeeds: the draw is below the curve order, and
\* the zero draw is accepted by the native backend only.
KeyAccepted(k) == k < CurveOrder /\ (k # 0 \/ backend = "native")

GenerateKey ==
    /\ pc = "keygen"
    /\ Len(validators) < NUM_VALIDATORS
    /\ \E k \in Draws :
         /\ KeyAccepted(k)
         /\ validators' = Append(validators, ValidatorRecord(Len(validators), k))
    /\ pc' = IF Len(validators) + 1 = NUM_VALIDATORS THEN "save_genesis" ELSE "keygen"
    /\ UNCHANGED <<config, error, consensus, block_period, i, bootnode_enode, files>>

\* keys.PrivateKey(draw) raises: nothing catches it, the run ends
GenerateKeyInvalid ==
    /\ pc = "keygen"
    /\ Len(validators) < NUM_VALIDATORS
    /\ \E k \in Draws : ~KeyAccepted(k)
    /\ Fail("InvalidKey")
    /\ UNCHANGED <<config, consensus, block_period, validators, i, bootnode_enode, files>>

\* ------------------------------------------------------------------------
\* save_node_files
\* ------------------------------------------------------------------------

SaveGenesis ==
    /\ pc = "save_genesis"
    /\ genesis_json' = <<BuildGenesis(validators, consensus)>>
    /\ i' = 1
    /\ pc' = IF validators = <<>> THEN "compose_begin" ELSE "save_keys"
    /\ UNCHANGED <<config, error, consensus, block_period, validators,
                   bootnode_enode, key_files, compose_files, validators_json>>

\* one iteration of "for v in validators": key, key.pub, address, enode
SaveNodeKeys ==
    /\ pc = "save_keys"
    /\ i <= Len(validators)
    /\ LET v == validators[i]
       IN  /\ v.index <= Len(NODE_IPS)
           /\ key_files' = (v.index :> [key     |-> <<Strip2(v.private_key)>>,
                                        key_pub |-> <<v.public_key>>,
                                        address |-> <<v.address>>,
                                        enode   |-> <<NodeEnode(v, NODE_IPS)>>])
                           @@ key_files
    /\ i' = i + 1
    /\ pc' = IF i = Len(validators) THEN "compose_begin" ELSE "save_keys"
    /\ UNCHANGED <<config, error, consensus, block_period, validators,
                   bootnode_enode, genesis_json, compose_files, validators_json>>

\* NODE_IPS[v['index']-1] raises IndexError after key, key.pub and address
\* of that node have been written
SaveNodeKeysIndexError ==
    /\ pc = "save_keys"
    /\ i <= Len(validators)
    /\ LET v == validators[i]
       IN  /\ v.index > Len(NODE_IPS)
           /\ key_files' = (v.index :> [key     |-> <<Strip2(v.private_key)>>,
                                        key_pub |-> <<v.public_key>>,
                                        address |-> <<v.address>>,
                                        enode   |-> <<>>])
                           @@ key_files
    /\ Fail("IndexError")
    /\ UNCHANGED <<config, consensus, block_period, validators, i,
                   bootnode_enode, genesis_json, compose_files, validators_json>>

\* ------------------------------------------------------------------------
\* create_docker_compose_files
\* ------------------------------------------------------------------------

ComposeBegin ==
    /\ pc = "compose_begin"
    /\ validators # <<>>
    /\ NODE_IPS # <<>>
    /\ bootnode_enode' = <<BootnodeEnode(validators, NODE_IPS)>>
    /\ i' = 1
    /\ pc' = "compose"
    /\ UNCHANGED <<config, error, consensus, block_period, validators, files>>

\* validators[0] raises IndexError on an empty list
ComposeBeginIndexError ==
    /\ pc = "compose_begin"
    /\ validators = <<>> \/ NODE_IPS = <<>>
    /\ Fail("IndexError")
    /\ UNCHANGED <<config, consensus, block_period, validators, i,
                   bootnode_enode, files>>

\* one iteration of "for v in validators".  NODE_IPS[i-1] cannot raise here:
\* save_node_files has read the same entry for every validator before.
ComposeValidator ==
    /\ pc = "compose"
    /\ i <= Len(validators)
    /\ LET v == validators[i]
       IN  /\ v.index <= Len(NODE_IPS)
           /\ compose_files' =
                (v.index :> ValidatorDescriptor(v, NODE_IPS, bootnode_enode[1], consensus))
                @@ compose_files
    /\ i' = i + 1
    /\ pc' = IF i = Len(validators) THEN "compose_rpc" ELSE "compose"
    /\ UNCHANGED <<config, error, consensus, block_period, validators,
                   bootnode_enode, genesis_json, key_files, validators_json>>

ComposeRpc ==
    /\ pc = "compose_rpc"
    /\ NUM_TOTAL_NODES >= 1
    /\ NUM_TOTAL_NODES <= Len(NODE_IPS)
    /\ compose_files' =
         (NUM_TOTAL_NODES :> RpcDescriptor(NUM_TOTAL_NODES, NODE_IPS,
                                           bootnode_enode[1], consensus))
         @@ compose_files
    /\ pc' = "summary"
    /\ UNCHANGED <<config, error, consensus, block_period, validators, i,
                   bootnode_enode, genesis_json, key_files, validators_json>>

\* NODE_IPS[NUM_TOTAL_NODES-1] raises IndexError building rpc_content
ComposeRpcIndexError ==
    /\ pc = "compose_rpc"
    /\ NUM_TOTAL_NODES > Len(NODE_IPS)
    /\ Fail("IndexError")
    /\ UNCHANGED <<config, consensus, block_period, validators, i,
                   bootnode_enode, files>>

\* ------------------------------------------------------------------------
\* save_validators_json, print_deployment_guide
\* ------------------------------------------------------------------------

SaveValidatorsJson ==
    /\ pc = "summary"
    /\ validators_json' = <<validators>>
    /\ pc' = "guide"
    /\ UNCHANGED <<config, error, consensus, block_period, validators, i,
                   bootnode_enode, genesis_json, key_files, compose_files>>

PrintDeploymentGuide ==
    /\ pc = "guide"
    /\ NUM_TOTAL_NODES <= Len(NODE_IPS)
    /\ pc' = "done"
    /\ UNCHANGED <<config, error, consensus, block_period, validators, i,
                   bootnode_enode, files>>

\* ------------------------------------------------------------------------
\* The file system refusing the next mkdir or open(..., "w")
\* ------------------------------------------------------------------------

WritingSteps == {"save_genesis", "save_keys", "compose_begin", "compose",
                 "compose_rpc", "summary"}

WriteFailure ==
    /\ pc \in WritingSteps
    /\ Fail("OSError")
    /\ UNCHANGED <<config, consensus, block_period, validators, i,
                   bootnode_enode, files>>

Next ==
    \/ Start
    \/ StartValueError
    \/ GenerateKey
    \/ GenerateKeyInvalid
    \/ SaveGenesis
    \/ SaveNodeKeys
    \/ SaveNodeKeysIndexError
    \/ ComposeBegin
    \/ ComposeBeginIndexError
    \/ ComposeValidator
    \/ ComposeRpc
    \/ ComposeRpcIndexError
    \/ SaveValidatorsJson
    \/ PrintDeploymentGuide
    \/ WriteFailure

Spec == Init /\ [][Next]_vars

\* ------------------------------------------------------------------------
\* Properties
\* ------------------------------------------------------------------------

GenesisWritten == genesis_json # <<>>

Genesis == genesis_json[1]

\* The validators' 20-byte addresses, in generation order.
AddressValues ==
    [j \in 1..Len(validators) |-> HexToBytes(Strip2(validators[j].address))]

\* The keys of the genesis allocations, in insertion order.
AllocKeys == [j \in 1..Len(Genesis.alloc) |-> Genesis.alloc[j].address]

NoArtifacts ==
    /\ genesis_json = <<>>
    /\ DOMAIN key_files = {}
    /\ DOMAIN compose_files = {}
    /\ validators_json = <<>>

AllArtifacts ==
    /\ GenesisWritten
    /\ DOMAIN key_files = 1..NUM_VALIDATORS
    /\ \A k \in DOMAIN key_files :
         /\ key_files[k].key # <<>>
         /\ key_files[k].key_pub # <<>>
         /\ key_files[k].address # <<>>
         /\ key_files[k].enode # <<>>
    /\ DOMAIN compose_files = 1..(NUM_VALIDATORS + 1)
    /\ validators_json # <<>>

ComposeReturned == pc \in {"summary", "guide", "done"}

\* C1: for every non-empty validator list, the canonical decoder applied to
\* the extraData that create_extra_data produced yields exactly the input
\* addresses, in order.
C1_RoundTrip ==
    (GenesisWritten /\ validators # <<>>) =>
        LET d == DecodeExtraData(Genesis.extraData)
        IN  d.ok /\ d.addrs = AddressValues

\* C2: in a genesis written by save_node_files (from a non-empty validator
\* list), the allocation keys in insertion order are the addresses decoded
\* from extraData, in order.
C2_AllocMatchesExtraData ==
    (GenesisWritten /\ validators # <<>>) =>
        LET d == DecodeExtraData(Genesis.extraData)
        IN  d.ok /\ [j \in 1..Len(d.addrs) |-> BytesHex(d.addrs[j])] = AllocKeys

\* C3: node 1's descriptor carries no bootstrap reference; every other
\* descriptor carries exactly the enode URL written to config/keys/node1/enode,
\* which is enode://<node 1 public key hex>@<node 1 host>:30303; once all
\* descriptors are written exactly one of them has no bootstrap reference.
C3_Bootstrap ==
    /\ \A k \in DOMAIN compose_files :
         IF k = 1
         THEN compose_files[k].bootnodes = <<>>
         ELSE /\ 1 \in DOMAIN key_files
              /\ compose_files[k].bootnodes = key_files[1].enode
              /\ key_files[1].enode =
                   << [scheme |-> "enode://",
                       pubkey |-> Strip2(key_files[1].key_pub[1]),
                       host   |-> NODE_IPS[1],
                       port   |-> 30303] >>
    /\ ComposeReturned =>
         Cardinality({k \in DOMAIN compose_files :
                        compose_files[k].bootnodes = <<>>}) = 1

C3_Witness ==
    /\ pc = "done"
    /\ NUM_VALIDATORS >= 2
    /\ compose_files[2].bootnodes = key_files[1].enode
    /\ compose_files[NUM_VALIDATORS + 1].role = "rpc"

\* C4: when NODE_IPS has fewer entries than NUM_TOTAL_NODES, the run writes
\* no artifact at all: no genesis, no key file, no descriptor, no summary.
C4_ShortTableWritesNothing ==
    Len(NODE_IPS) < NUM_TOTAL_NODES => NoArtifacts

\* C5: the written genesis carries the block period selected in main and
\* its consensus section is keyed by the selected consensus algorithm.
C5_BlockPeriod ==
    GenesisWritten =>
        /\ Genesis.blockperiodseconds = block_period
        /\ Genesis.consensus_key = consensus

\* C6: the key file of validator j is referenced by node j's own descriptor
\* and by no other descriptor; the RPC node's descriptor references no key;
\* the genesis holds no validator's private key.
C6_KeyOwnership ==
    /\ \A k \in DOMAIN compose_files : \A j \in 1..Len(validators) :
         compose_files[k].key_volume = <<validators[j].index>> =>
             /\ k = validators[j].index
             /\ compose_files[k].role = "validator"
    /\ \A k \in DOMAIN compose_files :
         IF compose_files[k].role = "validator"
         THEN compose_files[k].key_volume = <<k>> /\ compose_files[k].private_key_file
         ELSE compose_files[k].key_volume = <<>> /\ ~compose_files[k].private_key_file
    /\ GenesisWritten =>
         \A j \in 1..Len(validators) :
            LET secrets == {validators[j].private_key, Strip2(validators[j].private_key)}
            IN  /\ Genesis.extraData \notin secrets
                /\ \A a \in 1..Len(Genesis.alloc) : Genesis.alloc[a].address \notin secrets

C6_Witness ==
    /\ pc = "done"
    /\ NUM_VALIDATORS >= 2
    /\ compose_files[2].key_volume = <<2>>
    /\ compose_files[NUM_VALIDATORS + 1].key_volume = <<>>

\* C7: no genesis is produced from an empty validator list.
C7_EmptyListRejected ==
    GenesisWritten => validators # <<>>

C9_AllOrNothing ==
    /\ pc = "failed" => NoArtifacts
    /\ pc = "done" => AllArtifacts

\* C10: key generation never fails on a drawn value, never uses the zero
\* value as a private key, and returns NUM_VALIDATORS identities with
\* indices 1..NUM_VALIDATORS in order.
C10_KeyGeneration ==
    /\ error # "InvalidKey"
    /\ \A j \in 1..Len(validators) :
         validators[j].private_key # Prefix0x \o Zeros(64)
    /\ pc \notin {"start", "keygen", "failed"} =>
         /\ Len(validators) = NUM_VALIDATORS
         /\ \A j \in 1..Len(validators) : validators[j].index = j

====
